---------------------------- MODULE Spec2Model ----------------------------
(***************************************************************************)
(* rustTLD: the bucketed suffix store (Etld, Fqdn), the longest-match      *)
(* resolver (guess, find_tld, get_fqdn) and the public-suffix loader       *)
(* (parse_public_suffix_data), as a state machine.                         *)
(*                                                                         *)
(* Strings are TLA+ strings; Len, SubSeq and \o act on them character by   *)
(* character, so the Rust string methods are modelled by what they do.     *)
(***************************************************************************)
EXTENDS Integers, Sequences, FiniteSets, TLC

VARIABLES
    etld_list,           \* Fqdn.etld_list: bucket n holds the suffixes with n dots
    total,               \* Fqdn.total, the cached number of entries
    allow_private_tlds,  \* Fqdn.options.allow_private_tlds
    list,                \* the list of one stand-alone Etld
    hist,                \* history of `list`: the strings added since the last clear,
                         \* and whether sort has run since the last add
    url,                 \* the string the caller resolves
    last,                \* the last call and what it returned
    dl,                  \* download_public_suffix_file in progress: attempt and sleeps
    reload,              \* a parse_public_suffix_data running beside the readers
    global,              \* GLOBAL_MANAGER and the tasks that call init / get_fqdn
    threads              \* the threads that share one manager or one bucket

\* the variables of the processes that run in steps
procs == <<dl, reload, global, threads>>

vars == <<etld_list, total, allow_private_tlds, list, hist, url, last, dl, reload, global,
          threads>>

---------------------------------------------------------------------------
(* Rust string primitives                                                  *)

\* the printable ASCII characters from byte 32 on; the slot of byte 96, which
\* a TLA+ string cannot hold, repeats the space
ASCII ==
    " !\"#$%&'()*+,-./0123456789:;<=>?@ABCDEFGHIJKLMNOPQRSTUVWXYZ[\\]^_ abcdefghijklmnopqrstuvwxyz{|}~"

UPPER == "ABCDEFGHIJKLMNOPQRSTUVWXYZ"
LOWER == "abcdefghijklmnopqrstuvwxyz"
DIGITS == "0123456789"

Chr(s, i) == SubSeq(s, i, i)

Min(S) == CHOOSE x \in S : \A y \in S : x <= y

\* position of the one-character string c in t, 0 when absent
IndexIn(t, c) ==
    LET hits == {i \in 1..Len(t) : Chr(t, i) = c}
    IN  IF hits = {} THEN 0 ELSE Min(hits)

\* the byte value of each ASCII character
OrdOf == [c \in {Chr(ASCII, i) : i \in 1..Len(ASCII)} |-> IndexIn(ASCII, c) + 31]

Ord(c) == OrdOf[c]

\* a < b, given that a and b agree before position i
RECURSIVE StrLessFrom(_, _, _)
StrLessFrom(a, b, i) ==
    IF i > Len(a) THEN i <= Len(b)
    ELSE IF i > Len(b) THEN FALSE
    ELSE IF Chr(a, i) = Chr(b, i) THEN StrLessFrom(a, b, i + 1)
    ELSE Ord(Chr(a, i)) < Ord(Chr(b, i))

\* a < b in the byte-wise lexicographic order of Rust's String
StrLess(a, b) == StrLessFrom(a, b, 1)

StartsWith(s, p) == Len(p) <= Len(s) /\ SubSeq(s, 1, Len(p)) = p

\* first index >= from at which p occurs in s, 0 when there is none
Find(s, p, from) ==
    LET hits == {i \in from..(Len(s) - Len(p) + 1) : SubSeq(s, i, i + Len(p) - 1) = p}
    IN  IF hits = {} THEN 0 ELSE Min(hits)

Contains(s, p) == Find(s, p, 1) # 0

\* s.matches(c).count() for a one-character pattern
MatchesCount(s, c) == Cardinality({i \in 1..Len(s) : Chr(s, i) = c})

\* s.replace(p, ""): every non-overlapping occurrence, left to right
RECURSIVE Replace(_, _)
Replace(s, p) ==
    LET i == Find(s, p, 1)
    IN  IF i = 0 THEN s
        ELSE SubSeq(s, 1, i - 1) \o Replace(SubSeq(s, i + Len(p), Len(s)), p)

\* s.replacen(p, "", 1)
Replacen1(s, p) ==
    LET i == Find(s, p, 1)
    IN  IF i = 0 THEN s
        ELSE SubSeq(s, 1, i - 1) \o SubSeq(s, i + Len(p), Len(s))

\* s.split(c).collect(): always at least one group
RECURSIVE Split(_, _)
Split(s, c) ==
    LET i == Find(s, c, 1)
    IN  IF i = 0 THEN <<s>>
        ELSE <<SubSeq(s, 1, i - 1)>> \o Split(SubSeq(s, i + 1, Len(s)), c)

\* groups.join(c)
RECURSIVE Join(_, _)
Join(groups, c) ==
    IF Len(groups) = 0 THEN ""
    ELSE IF Len(groups) = 1 THEN groups[1]
    ELSE groups[1] \o c \o Join(Tail(groups), c)

IsSpace(c) == c = " " \/ c = "\t"

\* s.trim_start() and s.trim_end()
RECURSIVE TrimStart(_)
TrimStart(s) ==
    IF Len(s) > 0 /\ IsSpace(Chr(s, 1)) THEN TrimStart(SubSeq(s, 2, Len(s))) ELSE s

RECURSIVE TrimEnd(_)
TrimEnd(s) ==
    IF Len(s) > 0 /\ IsSpace(Chr(s, Len(s))) THEN TrimEnd(SubSeq(s, 1, Len(s) - 1)) ELSE s

\* s.trim()
Trim(s) == TrimEnd(TrimStart(s))

LowerChr(c) ==
    LET i == IndexIn(UPPER, c)
    IN  IF i = 0 THEN c ELSE Chr(LOWER, i)

\* s.to_lowercase()
RECURSIVE ToLowercase(_)
ToLowercase(s) ==
    IF Len(s) = 0 THEN ""
    ELSE IF Len(s) = 1 THEN LowerChr(s)
    ELSE LET h == Len(s) \div 2
         IN  ToLowercase(SubSeq(s, 1, h)) \o ToLowercase(SubSeq(s, h + 1, Len(s)))

IsSorted(l) == \A i \in 1..(Len(l) - 1) : StrLess(l[i], l[i + 1])

Range(l) == {l[i] : i \in DOMAIN l}

---------------------------------------------------------------------------
(* Etld: one bucket                                                        *)

ETLD_GROUP_MAX == 5

Buckets == 0..(ETLD_GROUP_MAX - 1)

\* Vec::contains
ListContains(l, s) == \E i \in DOMAIN l : l[i] = s

\* a sort that leaves the list as it is
SortListNoOp(l) == l

\* Vec::sort
SortList(l) == SortSeq(l, StrLess)

\* an add without the duplicate check
EtldAddNoCheck(l, s, sort_list) ==
    LET pushed == Append(l, s)
        after == IF sort_list THEN SortList(pushed) ELSE pushed
    IN  [list |-> after, ret |-> Len(after) > Len(l)]

\* Etld::add: the list afterwards and the value returned
EtldAdd(l, s, sort_list) ==
    IF ListContains(l, s) THEN [list |-> l, ret |-> FALSE]
    ELSE LET pushed == Append(l, s)
             after == IF sort_list THEN SortList(pushed) ELSE pushed
         IN  [list |-> after, ret |-> Len(after) > Len(l)]

\* a binary search that keeps the wrong half after each probe
RECURSIVE BinarySearchWrongHalf(_, _, _, _)
BinarySearchWrongHalf(l, s, base, size) ==
    IF size > 1
    THEN LET half == size \div 2
             mid == base + half
             nbase == IF StrLess(s, l[mid]) THEN mid ELSE base
         IN  BinarySearchWrongHalf(l, s, nbase, size - half)
    ELSE IF l[base] = s THEN base ELSE 0

\* slice::binary_search: halve [base, base + size) around the probe at mid
RECURSIVE BinarySearchFrom(_, _, _, _)
BinarySearchFrom(l, s, base, size) ==
    IF size > 1
    THEN LET half == size \div 2
             mid == base + half
             nbase == IF StrLess(s, l[mid]) THEN base ELSE mid
         IN  BinarySearchFrom(l, s, nbase, size - half)
    ELSE IF l[base] = s THEN base ELSE 0

\* Etld::search: <<matching entry, found>>
EtldSearch(l, s) ==
    IF Len(l) = 0 THEN <<"", FALSE>>
    ELSE LET idx == BinarySearchFrom(l, s, 1, Len(l))
         IN  IF idx = 0 THEN <<"", FALSE>> ELSE <<l[idx], TRUE>>

---------------------------------------------------------------------------
(* Results                                                                 *)

Ok(v) == [ok |-> TRUE, val |-> v, err |-> ""]
Err(e) == [ok |-> FALSE, val |-> "", err |-> e]
\* an index out of range: the thread panics instead of returning
Panic == Err("panic")

None == [some |-> FALSE, val |-> ""]
Some(v) == [some |-> TRUE, val |-> v]

---------------------------------------------------------------------------
(* Url::parse of the url crate, for strings "<scheme>://..." over letters, *)
(* digits and . - : / ? = (no userinfo, no IPv6 or numeric host, nothing   *)
(* that is percent-encoded).  Only what get_fqdn reads is kept: whether    *)
(* the parse succeeds, port(), query() and path().                         *)

SpecialSchemes == {"http", "https", "ftp", "ws", "wss"}

\* the port a special scheme implies; port() never reports it
DefaultPort(scheme) ==
    CASE scheme \in {"http", "ws"} -> "80"
      [] scheme \in {"https", "wss"} -> "443"
      [] scheme = "ftp" -> "21"
      [] OTHER -> ""

IsDigits(s) == \A i \in 1..Len(s) : IndexIn(DIGITS, Chr(s, i)) # 0

\* a port string without its leading zeros, as format!("{}", port) prints it
RECURSIVE StripZeros(_)
StripZeros(s) ==
    IF Len(s) > 1 /\ Chr(s, 1) = "0" THEN StripZeros(SubSeq(s, 2, Len(s))) ELSE s

\* the port fits 16 bits
PortInRange(p) ==
    Len(p) < 5 \/ (Len(p) = 5 /\ ~StrLess("65535", p))

StripLeadingSlashes(s) ==
    LET keep == {i \in 1..Len(s) : Chr(s, i) # "/"}
    IN  IF keep = {} THEN "" ELSE SubSeq(s, Min(keep), Len(s))

\* the path segments with "." and ".." resolved; `out` is what is kept so far
RECURSIVE DotSegments(_, _)
DotSegments(segs, out) ==
    IF Len(segs) = 0 THEN out
    ELSE LET seg == Head(segs)
             final == Len(segs) = 1
             popped == IF Len(out) = 0 THEN out ELSE SubSeq(out, 1, Len(out) - 1)
             next == IF seg = ".." THEN (IF final THEN Append(popped, "") ELSE popped)
                     ELSE IF seg = "." THEN (IF final THEN Append(out, "") ELSE out)
                     ELSE Append(out, seg)
         IN  DotSegments(Tail(segs), next)

\* the serialized path of a raw path that starts with "/"
NormalizePath(raw) ==
    "/" \o Join(DotSegments(Split(SubSeq(raw, 2, Len(raw)), "/"), <<>>), "/")

\* the index just past the authority: the first of / ? # or the end
AuthorityEnd(rest) ==
    LET stops == {i \in 1..Len(rest) : Chr(rest, i) \in {"/", "?", "#"}}
    IN  IF stops = {} THEN Len(rest) + 1 ELSE Min(stops)

\* the index of the last colon of the authority, 0 when there is none
LastColon(authority) ==
    LET colons == {i \in 1..Len(authority) : Chr(authority, i) = ":"}
    IN  IF colons = {} THEN 0 ELSE CHOOSE j \in colons : \A k \in colons : k <= j

HostOf(authority, colon) ==
    IF colon = 0 THEN authority ELSE SubSeq(authority, 1, colon - 1)

PortStr(authority, colon) ==
    IF colon = 0 THEN "" ELSE StripZeros(SubSeq(authority, colon + 1, Len(authority)))

\* what follows the authority, without its fragment
NoFragment(tail) ==
    LET hash == Find(tail, "#", 1)
    IN  IF hash = 0 THEN tail ELSE SubSeq(tail, 1, hash - 1)

\* Url::port: None for no port and for the default port of the scheme
PortOf(scheme, portstr) ==
    IF portstr = "" \/ portstr = DefaultPort(scheme) THEN None ELSE Some(portstr)

\* Url::query
QueryOf(nofrag) ==
    LET qm == Find(nofrag, "?", 1)
    IN  IF qm = 0 THEN None ELSE Some(SubSeq(nofrag, qm + 1, Len(nofrag)))

\* Url::path: "/" for the empty path of a special scheme
PathOf(scheme, nofrag) ==
    LET qm == Find(nofrag, "?", 1)
    IN  IF qm = 1 \/ nofrag = ""
        THEN (IF scheme \in SpecialSchemes THEN "/" ELSE "")
        ELSE NormalizePath(IF qm = 0 THEN nofrag ELSE SubSeq(nofrag, 1, qm - 1))

\* the checks on host and port, then the parts get_fqdn reads
ParseParts(scheme, host, colon, portstr, nofrag) ==
    IF Contains(host, ":") THEN [ok |-> FALSE]
    ELSE IF host = "" /\ (scheme \in SpecialSchemes \/ colon # 0) THEN [ok |-> FALSE]
    ELSE IF ~IsDigits(portstr) \/ ~PortInRange(portstr) THEN [ok |-> FALSE]
    ELSE [ok |-> TRUE, port |-> PortOf(scheme, portstr),
          query |-> QueryOf(nofrag), path |-> PathOf(scheme, nofrag)]

ParseHostPort(scheme, authority, colon, nofrag) ==
    ParseParts(scheme, HostOf(authority, colon), colon, PortStr(authority, colon), nofrag)

ParseAuthority(scheme, authority, nofrag) ==
    ParseHostPort(scheme, authority, LastColon(authority), nofrag)

ParseSplit(scheme, rest, aend) ==
    ParseAuthority(scheme, SubSeq(rest, 1, aend - 1),
                   NoFragment(SubSeq(rest, aend, Len(rest))))

\* a special scheme skips the slashes in front of the authority
ParseAfterScheme(scheme, after) ==
    IF scheme \in SpecialSchemes
    THEN ParseSplit(scheme, StripLeadingSlashes(after),
                    AuthorityEnd(StripLeadingSlashes(after)))
    ELSE ParseSplit(scheme, after, AuthorityEnd(after))

UrlParse(s) ==
    LET sep == Find(s, "://", 1)
    IN  IF sep = 0 \/ sep = 1 THEN [ok |-> FALSE]
        ELSE ParseAfterScheme(SubSeq(s, 1, sep - 1), SubSeq(s, sep + 3, Len(s)))

---------------------------------------------------------------------------
(* Fqdn: the resolver                                                      *)

SCHEMES == <<"http://", "https://", "ftp://", "ws://", "wss://", "fake://">>

\* Fqdn::has_scheme: <<processed string, has a scheme>>
has_scheme(s, remove) ==
    LET hits == {k \in DOMAIN SCHEMES : StartsWith(s, SCHEMES[k])}
    IN  IF hits = {} THEN <<s, FALSE>>
        ELSE IF remove THEN <<Replacen1(s, SCHEMES[Min(hits)]), TRUE>>
        ELSE <<s, TRUE>>

\* groups[from..] of a Vec with grp_cnt elements, from counted from 0
SliceFrom(groups, from) ==
    IF from < 0 \/ from > Len(groups) THEN Panic
    ELSE Ok(Join(SubSeq(groups, from + 1, Len(groups)), "."))

\* Fqdn::guess: the last `count` labels of domain
guess(domain, count) ==
    IF domain = "" THEN Err("InvalidUrl")
    ELSE IF MatchesCount(domain, ".") < 1 \/ Len(domain) < 3 THEN Err("InvalidUrl")
    ELSE LET groups == Split(domain, ".")
             grp_cnt == Len(groups)
         IN  IF grp_cnt >= count
             THEN IF count \in 1..5 THEN SliceFrom(groups, grp_cnt - count)
                  ELSE Err("InvalidUrl")
             ELSE Err("InvalidUrl")

\* the bucket index without the shift by one
BucketForNoShift(i) == i

\* the bucket searched for a candidate of i labels
BucketFor(i) == i - 1

\* a bound that stops the lookups at candidates of four labels
WithinGroupMaxFour(i) == i < ETLD_GROUP_MAX

\* find_tld: the candidate of i labels is looked up when i <= ETLD_GROUP_MAX
WithinGroupMax(i) == i <= ETLD_GROUP_MAX

\* the loop of Fqdn::find_tld from i down to 1
RECURSIVE FindTldFrom(_, _, _)
FindTldFrom(store, s, i) ==
    IF i < 1 THEN Ok("")
    ELSE IF guess(s, i) = Panic THEN Panic
    ELSE IF guess(s, i).ok /\ WithinGroupMax(i)
    THEN IF BucketFor(i) \notin DOMAIN store THEN Panic
         ELSE LET found == EtldSearch(store[BucketFor(i)], guess(s, i).val)
              IN  IF found[2] THEN Ok(found[1])
                  ELSE FindTldFrom(store, s, i - 1)
    ELSE FindTldFrom(store, s, i - 1)

\* the loop of find_tld run upwards, from one label to `dots` labels
RECURSIVE FindTldUpFrom(_, _, _, _)
FindTldUpFrom(store, s, i, dots) ==
    IF i > dots THEN Ok("")
    ELSE LET g == guess(s, i)
         IN  IF g.ok /\ i <= ETLD_GROUP_MAX
             THEN LET found == EtldSearch(store[BucketFor(i)], g.val)
                  IN  IF found[2] THEN Ok(found[1])
                      ELSE FindTldUpFrom(store, s, i + 1, dots)
             ELSE FindTldUpFrom(store, s, i + 1, dots)

\* a find_tld that returns the shortest match
find_tld_shortest(store, s) == FindTldUpFrom(store, s, 1, MatchesCount(s, "."))

\* Fqdn::find_tld: Ok(the suffix found, "" when none), or a panic
find_tld(store, s) ==
    LET dots == MatchesCount(s, ".")
    IN  IF dots >= 1 THEN FindTldFrom(store, s, dots) ELSE Ok("")

\* get_fqdn: ":<port>" replaced away when port() is Some
RemovePort(clean_url, parsed) ==
    IF parsed.port.some THEN Replace(clean_url, ":" \o parsed.port.val) ELSE clean_url

\* get_fqdn: "?<query>" replaced away when query() is Some
RemoveQuery(clean_url, parsed) ==
    IF parsed.query.some THEN Replace(clean_url, "?" \o parsed.query.val) ELSE clean_url

\* get_fqdn: the path replaced away unless it is empty or "/"
RemovePath(clean_url, parsed) ==
    IF parsed.path # "" /\ parsed.path # "/"
    THEN Replace(clean_url, parsed.path) ELSE clean_url

\* the string get_fqdn hands to find_tld: scheme, port, query and path replaced away
CleanUrl(url_string, parsed) ==
    RemovePath(RemoveQuery(RemovePort(has_scheme(url_string, TRUE)[1], parsed),
                           parsed), parsed)

\* the url string get_fqdn parses: a fake scheme is put in front of a bare one
UrlString(src_url) ==
    IF has_scheme(src_url, FALSE)[2] THEN src_url ELSE "fake://" \o src_url

\* parts[parts.len() - 1]
LastPart(parts) == IF Len(parts) < 1 THEN Panic ELSE Ok(parts[Len(parts)])

\* get_fqdn from the remainder on: the label in front of the suffix, joined with it
JoinDomain(domain_part, etld) ==
    IF domain_part = "" THEN Err("InvalidUrl")
    ELSE IF MatchesCount(domain_part, ".") = 0 THEN Ok(domain_part \o "." \o etld)
    ELSE IF LastPart(Split(domain_part, ".")) = Panic THEN Panic
    ELSE Ok(LastPart(Split(domain_part, ".")).val \o "." \o etld)

\* the last steps of get_fqdn: every ".<etld>" replaced away, then the join
ExtractDomain(clean_url, etld) == JoinDomain(Replace(clean_url, "." \o etld), etld)

\* an early rejection that lets three characters through
EarlyRejectOffByOne(src_url) ==
    \/ src_url = ""
    \/ Len(src_url) < 3 \/ MatchesCount(src_url, ".") < 1

\* the two early returns of get_fqdn: empty, shorter than 4, or without a dot
EarlyReject(src_url) ==
    \/ src_url = ""
    \/ Len(src_url) < 4 \/ MatchesCount(src_url, ".") < 1

\* get_fqdn once find_tld has returned
ResolveTld(clean_url, etld) ==
    IF etld = Panic THEN Panic
    ELSE IF etld.val = "" THEN Err("InvalidTld")
    ELSE ExtractDomain(clean_url, etld.val)

\* get_fqdn from the stripped url on
ResolveClean(store, clean_url) == ResolveTld(clean_url, find_tld(store, clean_url))

\* get_fqdn once Url::parse has returned
ResolveParsed(store, url_string, parsed) ==
    IF ~parsed.ok THEN Err("InvalidUrl")
    ELSE ResolveClean(store, CleanUrl(url_string, parsed))

\* get_fqdn from the url string with its scheme on
ResolveUrl(store, url_string) == ResolveParsed(store, url_string, UrlParse(url_string))

\* Fqdn::get_fqdn
get_fqdn(store, src_url) ==
    IF EarlyReject(src_url) THEN Err("InvalidUrl")
    ELSE ResolveUrl(store, UrlString(src_url))

---------------------------------------------------------------------------
(* Fqdn: the store and the loader                                          *)

EmptyStore == [n \in Buckets |-> <<>>]

\* Etld::count summed over the buckets, as tidy computes the total
RECURSIVE CountFrom(_, _)
CountFrom(store, n) ==
    IF n \notin DOMAIN store THEN 0 ELSE Len(store[n]) + CountFrom(store, n + 1)

CountAll(store) == CountFrom(store, 0)

\* Fqdn::tidy: every bucket sorted
TidyStore(store) == [n \in DOMAIN store |-> SortList(store[n])]

MARKERS == <<"publicsuffix.org",
             "Mozilla Public Suffix List",
             "===BEGIN ICANN DOMAINS===",
             "This Source Code Form is subject to the terms of the Mozilla Public License">>

BEGIN_ICANN == "===BEGIN ICANN DOMAINS==="
END_ICANN == "===END ICANN DOMAINS==="

MARKER_LINES == 50
MAX_TLD_LEN == 253

\* the floor on accepted entries: 1000 in the source, scaled down here so that
\* lists on either side of it stay small; the five-entry list of
\* test_load_from_valid_test_file is below it, as it is below 1000
MIN_ENTRIES == 6

\* a marker search that reads every line
FoundMarkerAnywhere(lines) ==
    \E i \in 1..Len(lines) : \E m \in DOMAIN MARKERS : Contains(lines[i], MARKERS[m])

\* one of the first 50 lines carries a known marker
FoundMarker(lines) ==
    \E i \in 1..Len(lines) :
        /\ i <= MARKER_LINES
        /\ \E m \in DOMAIN MARKERS : Contains(lines[i], MARKERS[m])

\* the state of the line loop before its first line, the buckets just cleared
LoopStart ==
    [lists |-> EmptyStore, icann |-> FALSE, processed_count |-> 0, failed |-> FALSE]

\* a length check that skips the over-long line instead of failing
ProcessEntrySkipLong(acc, tld) ==
    IF Len(tld) > MAX_TLD_LEN THEN acc
    ELSE LET dots == MatchesCount(tld, ".")
             res == EtldAdd(acc.lists[dots], tld, FALSE)
         IN  IF dots < ETLD_GROUP_MAX
             THEN [acc EXCEPT !.lists[dots] = res.list,
                              !.processed_count = IF res.ret THEN @ + 1 ELSE @]
             ELSE acc

\* an add that puts a rule of five or more dots into the last bucket
ProcessEntryLastBucket(acc, tld) ==
    IF Len(tld) > MAX_TLD_LEN THEN [acc EXCEPT !.failed = TRUE]
    ELSE LET dots == IF MatchesCount(tld, ".") < ETLD_GROUP_MAX
                     THEN MatchesCount(tld, ".") ELSE ETLD_GROUP_MAX - 1
             res == EtldAdd(acc.lists[dots], tld, FALSE)
         IN  [acc EXCEPT !.lists[dots] = res.list,
                         !.processed_count = IF res.ret THEN @ + 1 ELSE @]

\* a rule line that passed the filters: length check, then the add to its bucket
ProcessEntry(acc, tld) ==
    IF Len(tld) > MAX_TLD_LEN THEN [acc EXCEPT !.failed = TRUE]
    ELSE LET dots == MatchesCount(tld, ".")
             res == EtldAdd(acc.lists[dots], tld, FALSE)
         IN  IF dots < ETLD_GROUP_MAX
             THEN [acc EXCEPT !.lists[dots] = res.list,
                              !.processed_count = IF res.ret THEN @ + 1 ELSE @]
             ELSE acc

\* an iteration that takes wildcard and exception lines for rules
ProcessLineKeepWildcards(acc, line, allow_private) ==
    LET trimmed == Trim(line)
        tld == ToLowercase(trimmed)
    IN  IF acc.failed THEN acc
        ELSE IF trimmed = "" THEN acc
        ELSE IF Contains(line, BEGIN_ICANN) THEN [acc EXCEPT !.icann = TRUE]
        ELSE IF Contains(line, END_ICANN) THEN [acc EXCEPT !.icann = FALSE]
        ELSE IF ~allow_private /\ ~acc.icann THEN acc
        ELSE IF StartsWith(trimmed, "//") THEN acc
        ELSE IF tld = "" THEN acc
        ELSE ProcessEntry(acc, tld)

\* one iteration of the line loop; nothing runs after the early return
ProcessLine(acc, line, allow_private) ==
    LET trimmed == Trim(line)
        tld == ToLowercase(trimmed)
    IN  IF acc.failed THEN acc
        ELSE IF trimmed = "" THEN acc
        ELSE IF Contains(line, BEGIN_ICANN) THEN [acc EXCEPT !.icann = TRUE]
        ELSE IF Contains(line, END_ICANN) THEN [acc EXCEPT !.icann = FALSE]
        ELSE IF ~allow_private /\ ~acc.icann THEN acc
        ELSE IF StartsWith(trimmed, "//") THEN acc
        ELSE IF StartsWith(trimmed, "*") \/ StartsWith(trimmed, "!") THEN acc
        ELSE IF tld = "" THEN acc
        ELSE ProcessEntry(acc, tld)

\* the line loop over lines[lo..hi], in order
RECURSIVE ProcessLines(_, _, _, _, _)
ProcessLines(acc, lines, lo, hi, allow_private) ==
    IF lo > hi THEN acc
    ELSE IF lo = hi THEN ProcessLine(acc, lines[lo], allow_private)
    ELSE LET mid == (lo + hi) \div 2
             left == ProcessLines(acc, lines, lo, mid, allow_private)
         IN  IF left.failed THEN left
             ELSE ProcessLines(left, lines, mid + 1, hi, allow_private)

\* the line loop of parse_public_suffix_data over all the lines of data
LineLoop(data, allow_private) ==
    ProcessLines(LoopStart, data.lines, 1, Len(data.lines), allow_private)

\* what a call of parse_public_suffix_data does: the result returned, whether
\* the buckets were reset and refilled (with `lists`), and whether tidy ran
Outcome(ret, cleared, lists, tidied) ==
    [ret |-> ret, cleared |-> cleared, lists |-> lists, tidied |-> tidied]

\* a parse without the floor on the entries processed
parse_without_floor(data, allow_private) ==
    LET done == LineLoop(data, allow_private) IN
    IF ~data.utf8 THEN Outcome(Err("PublicSuffixParse"), FALSE, EmptyStore, FALSE)
    ELSE IF Len(data.lines) = 0
    THEN Outcome(Err("PublicSuffixParse"), FALSE, EmptyStore, FALSE)
    ELSE IF ~FoundMarker(data.lines)
    THEN Outcome(Err("PublicSuffixFormat"), FALSE, EmptyStore, FALSE)
    ELSE IF done.failed
    THEN Outcome(Err("PublicSuffixParse"), TRUE, done.lists, FALSE)
    ELSE Outcome(Ok(""), TRUE, TidyStore(done.lists), TRUE)

\* a parse that looks for the marker before it checks the encoding
parse_marker_first(data, allow_private) ==
    LET done == LineLoop(data, allow_private) IN
    IF ~FoundMarker(data.lines)
    THEN Outcome(Err("PublicSuffixFormat"), FALSE, EmptyStore, FALSE)
    ELSE IF ~data.utf8 THEN Outcome(Err("PublicSuffixParse"), FALSE, EmptyStore, FALSE)
    ELSE IF Len(data.lines) = 0
    THEN Outcome(Err("PublicSuffixParse"), FALSE, EmptyStore, FALSE)
    ELSE IF done.failed
    THEN Outcome(Err("PublicSuffixParse"), TRUE, done.lists, FALSE)
    ELSE IF done.processed_count < MIN_ENTRIES
    THEN Outcome(Err("PublicSuffixParse"), TRUE, done.lists, FALSE)
    ELSE Outcome(Ok(""), TRUE, TidyStore(done.lists), TRUE)

\* Fqdn::parse_public_suffix_data
parse_public_suffix_data(data, allow_private) ==
    LET done == LineLoop(data, allow_private) IN
    IF ~data.utf8 THEN Outcome(Err("PublicSuffixParse"), FALSE, EmptyStore, FALSE)
    ELSE IF Len(data.lines) = 0
    THEN Outcome(Err("PublicSuffixParse"), FALSE, EmptyStore, FALSE)
    ELSE IF ~FoundMarker(data.lines)
    THEN Outcome(Err("PublicSuffixFormat"), FALSE, EmptyStore, FALSE)
    ELSE IF done.failed
    THEN Outcome(Err("PublicSuffixParse"), TRUE, done.lists, FALSE)
    ELSE IF done.processed_count < MIN_ENTRIES
    THEN Outcome(Err("PublicSuffixParse"), TRUE, done.lists, FALSE)
    ELSE Outcome(Ok(""), TRUE, TidyStore(done.lists), TRUE)

---------------------------------------------------------------------------
(* Inputs                                                                  *)

\* s repeated n times
RECURSIVE Repeat(_, _)
Repeat(s, n) ==
    IF n <= 0 THEN ""
    ELSE IF n = 1 THEN s
    ELSE Repeat(s, n \div 2) \o Repeat(s, n - n \div 2)

\* n distinct one-label rules, in ascending order
Bulk(n) == [i \in 1..n |-> "x" \o ToString(MIN_ENTRIES + i)]

HEADER == <<"// This is a test file for Mozilla Public Suffix List",
            "// publicsuffix.org test data",
            "// ===BEGIN ICANN DOMAINS===",
            "">>

FOOTER == <<"// ===END ICANN DOMAINS===", "a.uk">>

\* n lines without a marker
Filler(n) == [i \in 1..n |-> "Just some random content"]

MIN_DATA_SIZE == 32768
MAX_FILE_SIZE == 52428800
MAX_DOWNLOAD_SIZE == 10485760

\* The suffix lists handed to the loader.  `lines` is content.lines() of the
\* bytes; `pad` is the number of further bytes in a closing comment line,
\* all the letter a, as test_load_from_valid_test_file pads its file: such a
\* line is skipped by the line loop under either option and only adds to the
\* size.
DataFile ==
    [invalid_utf8  |-> [utf8 |-> FALSE, lines |-> <<>>, pad |-> MIN_DATA_SIZE],
     empty         |-> [utf8 |-> TRUE, lines |-> <<>>, pad |-> 0],
     wrong_format  |-> [utf8 |-> TRUE,
                        lines |-> Filler(MARKER_LINES)
                                  \o <<"// ===BEGIN ICANN DOMAINS===", "uk", "co.uk">>
                                  \o Bulk(MIN_ENTRIES) \o FOOTER,
                        pad |-> MIN_DATA_SIZE],
     unmarked_long |-> [utf8 |-> TRUE,
                        lines |-> <<"Just some random content",
                                    Repeat("a", MAX_TLD_LEN + 1)>>,
                        pad |-> MIN_DATA_SIZE],
     small         |-> [utf8 |-> TRUE,
                        lines |-> HEADER
                                  \o <<"uk", "a", " CO.UK ", "*.ck", "!www.ck", "uk">>
                                  \o [i \in 1..MIN_ENTRIES |-> "UK"] \o FOOTER,
                        pad |-> MIN_DATA_SIZE],
     test_file     |-> [utf8 |-> TRUE,
                        lines |-> HEADER
                                  \o <<"// Generic top-level domains", "com", "org", "net",
                                       "", "// Country code top-level domains", "uk",
                                       "co.uk", "", "// ===END ICANN DOMAINS===",
                                       "// Padding: ">>,
                        pad |-> MIN_DATA_SIZE],
     long_line     |-> [utf8 |-> TRUE,
                        lines |-> HEADER
                                  \o <<"uk", "co", Repeat("a", MAX_TLD_LEN + 1), "co.uk">>
                                  \o Bulk(MIN_ENTRIES) \o FOOTER,
                        pad |-> MIN_DATA_SIZE],
     tiny          |-> [utf8 |-> TRUE,
                        lines |-> <<"// ===BEGIN ICANN DOMAINS===">> \o Bulk(MIN_ENTRIES + 1),
                        pad |-> 0],
     full          |-> [utf8 |-> TRUE,
                        lines |-> HEADER
                                  \o <<"uk", "  IO ", "com", "// a comment", "a", "COM",
                                       "co.uk", "*.ck", "!www.ck", "a.b.c.d.e.uk", ".uk", "uk.",
                                       "a.a.a.co.uk">>
                                  \o Bulk(MIN_ENTRIES) \o FOOTER
                                  \o <<"// ===BEGIN ICANN DOMAINS===", "com.au", "io",
                                       "// ===END ICANN DOMAINS===", "b.uk">>,
                        pad |-> MIN_DATA_SIZE]]

\* the number of bytes of lines[from..], each with its line feed
RECURSIVE LinesSize(_, _)
LinesSize(lines, from) ==
    IF from > Len(lines) THEN 0 ELSE Len(lines[from]) + 1 + LinesSize(lines, from + 1)

\* metadata.len() of the file, bytes.len() of the response body
SizeOf(data) == LinesSize(data.lines, 1) + data.pad

\* the size of each file, computed once
FileSize == [f \in DOMAIN DataFile |-> SizeOf(DataFile[f])]

FileNames == DOMAIN DataFile

\* parse_public_suffix_data evaluated once for each file and option
ParseOf ==
    [f \in FileNames |-> [ap \in BOOLEAN |-> parse_public_suffix_data(DataFile[f], ap)]]

\* the paths handed to load_public_suffix_from_file: the files, no path at
\* all, a path that does not exist and a directory
NO_PATH == ""
MISSING_PATH == "/tmp/missing.dat"
DIR_PATH == "/tmp"
Paths == FileNames \cup {NO_PATH, MISSING_PATH, DIR_PATH}

\* a call that returns e before it touches the store
Refused(e) == Outcome(Err(e), FALSE, EmptyStore, FALSE)

\* a file load without the floor on the size
load_from_file_without_floor(file_path, allow_private) ==
    IF file_path = NO_PATH THEN Refused("PublicSuffixDownload")
    ELSE IF file_path = MISSING_PATH THEN Refused("PublicSuffixDownload")
    ELSE IF file_path = DIR_PATH THEN Refused("PublicSuffixDownload")
    ELSE IF FileSize[file_path] > MAX_FILE_SIZE THEN Refused("PublicSuffixParse")
    ELSE ParseOf[file_path][allow_private]

\* Fqdn::load_public_suffix_from_file: the checks on the path and the size,
\* then parse_public_suffix_data, whose error keeps its kind
load_public_suffix_from_file(file_path, allow_private) ==
    IF file_path = NO_PATH THEN Refused("PublicSuffixDownload")
    ELSE IF file_path = MISSING_PATH THEN Refused("PublicSuffixDownload")
    ELSE IF file_path = DIR_PATH THEN Refused("PublicSuffixDownload")
    ELSE IF FileSize[file_path] < MIN_DATA_SIZE THEN Refused("PublicSuffixParse")
    ELSE IF FileSize[file_path] > MAX_FILE_SIZE THEN Refused("PublicSuffixParse")
    ELSE ParseOf[file_path][allow_private]

\* what one download attempt meets: no connection, a status that is not a
\* success, a content type that is neither text nor octet-stream, a body that
\* cannot be read to its end, or the body
AttemptOutcomes == {"network", "status", "content_type", "read_error", "body"}

\* Fqdn::attempt_download against a server that holds the file src
attempt_download(outcome, src) ==
    IF outcome \in {"network", "status", "content_type"}
    THEN Err("PublicSuffixDownload")
    ELSE IF outcome = "read_error" THEN Err("PublicSuffixParse")
    ELSE IF FileSize[src] > MAX_DOWNLOAD_SIZE THEN Err("PublicSuffixParse")
    ELSE IF FileSize[src] < MIN_DATA_SIZE THEN Err("PublicSuffixParse")
    ELSE Ok(src)

MAX_RETRIES == 3

\* a backoff that does not grow
BackoffFlat(attempt) == 1

\* the backoff after a failed attempt: 1 << (attempt - 1) seconds
Backoff(attempt) == 2 ^ (attempt - 1)

MaxLabels == 3
MaxDepth == 7

Labels == {"", "a", "co", "uk"}

RECURSIVE LabelSeqs(_)
LabelSeqs(k) ==
    IF k = 0 THEN {<<>>}
    ELSE {Append(p, l) : p \in LabelSeqs(k - 1), l \in Labels}

\* every host of up to MaxLabels labels, empty labels included
BareHosts == {Join(p, ".") : p \in UNION {LabelSeqs(k) : k \in 1..MaxLabels}}

\* hosts with more labels than there are buckets
DeepHosts == {Repeat("a.", k) \o "co.uk" : k \in MaxLabels..(MaxDepth - 2)}

DecoSchemes == {"", "http://", "https://", "ftp://", "ws://", "wss://"}
DecoPorts == {"", ":80", ":8080"}
DecoPaths == {"", "/path"}
DecoQueries == {"", "?query=value"}
DecoHosts == {"a.co.uk", ".a"}

Decorate(h, scheme, port, path, query) == scheme \o h \o port \o path \o query

Decorations == DecoSchemes \X DecoPorts \X DecoPaths \X DecoQueries

Decorated == {Decorate(h, d[1], d[2], d[3], d[4]) : h \in DecoHosts, d \in Decorations}

Examples == {"a.io", "invalid-url", "http://", "just-text-no-domain", "example.co.uk",
             "subdomain.example.co.uk", "mail.accounts.google.com",
             "http://example.com:8080/path?query=value", "example.unknown-tld"}

Urls == BareHosts \cup DeepHosts \cup Decorated \cup Examples

MaxPool == 4
POOL == <<"com", "org", "co.uk", "net", "a">>
Pool == {POOL[i] : i \in 1..MaxPool}

---------------------------------------------------------------------------
(* The Fqdn manager: load, tidy, get_fqdn                                  *)

NoCall == [op |-> "none", arg |-> "", ret |-> Ok("")]

\* no download is running
NoDownload == [pc |-> "idle", src |-> "", attempt |-> 0, slept |-> <<>>, last_error |-> ""]

\* no reload is running beside the readers
NoReload == [pc |-> "idle"]

\* the tasks that call into the global manager
MaxTasks == 3
Tasks == 1..MaxTasks

\* a task outside any call
NoTask == [pc |-> "idle", op |-> "none", opts |-> "", ret |-> Ok(""), got |-> None]

\* no thread is inside a call
NoThreads == <<>>

\* GLOBAL_MANAGER before its first use: the lock is free and holds None
NoGlobal == [manager |-> None, writer |-> 0, task |-> [t \in Tasks |-> NoTask]]

Init ==
    /\ etld_list = EmptyStore
    /\ total = 0
    /\ allow_private_tlds \in BOOLEAN
    /\ list = <<>>
    /\ hist = [added |-> {}, sealed |-> TRUE]
    /\ url \in Urls
    /\ last = NoCall
    /\ dl = NoDownload
    /\ reload = NoReload
    /\ global = NoGlobal
    /\ threads = NoThreads

\* load_public_suffix_from_file / download_public_suffix_file once the bytes
\* are read: parse_public_suffix_data on this manager
Load(f) ==
    LET r == ParseOf[f][allow_private_tlds]
    IN  /\ etld_list' = IF r.cleared THEN r.lists ELSE etld_list
        /\ total' = IF r.tidied THEN CountAll(r.lists) ELSE total
        /\ last' = [op |-> "load", arg |-> f, ret |-> r.ret]
        /\ UNCHANGED <<allow_private_tlds, list, hist, url, procs>>

Tidy ==
    /\ etld_list' = TidyStore(etld_list)
    /\ total' = CountAll(etld_list)
    /\ last' = [op |-> "tidy", arg |-> "", ret |-> Ok("")]
    /\ UNCHANGED <<allow_private_tlds, list, hist, url, procs>>

GetFqdn ==
    /\ last' = [op |-> "get_fqdn", arg |-> url, ret |-> get_fqdn(etld_list, url)]
    /\ UNCHANGED <<etld_list, total, allow_private_tlds, list, hist, url, procs>>

Next ==
    \/ \E f \in FileNames : Load(f)
    \/ Tidy
    \/ GetFqdn

Spec == Init /\ [][Next]_vars

---------------------------------------------------------------------------
(* One stand-alone Etld: add, sort, clear, search                          *)

InitEtld ==
    /\ etld_list = EmptyStore
    /\ total = 0
    /\ allow_private_tlds = FALSE
    /\ list = <<>>
    /\ hist = [added |-> {}, sealed |-> TRUE]
    /\ url = ""
    /\ last = NoCall
    /\ dl = NoDownload
    /\ reload = NoReload
    /\ global = NoGlobal
    /\ threads = NoThreads

Add(s, sort_list) ==
    LET r == EtldAdd(list, s, sort_list)
    IN  /\ list' = r.list
        /\ hist' = [added |-> hist.added \cup {s},
                    sealed |-> IF r.ret THEN sort_list ELSE hist.sealed]
        /\ last' = [op |-> "add", arg |-> s, ret |-> r.ret]
        /\ UNCHANGED <<etld_list, total, allow_private_tlds, url, procs>>

Sort ==
    /\ list' = SortList(list)
    /\ hist' = [hist EXCEPT !.sealed = TRUE]
    /\ last' = [op |-> "sort", arg |-> "", ret |-> TRUE]
    /\ UNCHANGED <<etld_list, total, allow_private_tlds, url, procs>>

Clear ==
    /\ list' = <<>>
    /\ hist' = [added |-> {}, sealed |-> TRUE]
    /\ last' = [op |-> "clear", arg |-> "", ret |-> TRUE]
    /\ UNCHANGED <<etld_list, total, allow_private_tlds, url, procs>>

Search(s) ==
    /\ last' = [op |-> "search", arg |-> s, ret |-> EtldSearch(list, s)]
    /\ UNCHANGED <<etld_list, total, allow_private_tlds, list, hist, url, procs>>

NextEtld ==
    \/ \E s \in Pool, sort_list \in BOOLEAN : Add(s, sort_list)
    \/ Sort
    \/ Clear
    \/ \E s \in Pool : Search(s)

SpecEtld == InitEtld /\ [][NextEtld]_vars

---------------------------------------------------------------------------
(* The loader's public entry points on one manager                         *)

LoadUrls == {"example.com", "test.co.uk"}

\* the files a server answers a download with: one below the size floor, one
\* that fails in the parser and one that loads
DownloadSources == {"tiny", "small", "full"}

InitLoad ==
    /\ etld_list = EmptyStore
    /\ total = 0
    /\ allow_private_tlds \in BOOLEAN
    /\ list = <<>>
    /\ hist = [added |-> {}, sealed |-> TRUE]
    /\ url \in LoadUrls
    /\ last = NoCall
    /\ dl = NoDownload
    /\ reload = NoReload
    /\ global = NoGlobal
    /\ threads = NoThreads

\* a parse that adds to the buckets without the reset
AppliedNoClear(r) ==
    /\ etld_list' = IF r.cleared
                    THEN [n \in Buckets |-> SortList(etld_list[n] \o r.lists[n])]
                    ELSE etld_list
    /\ total' = IF r.tidied THEN CountAll(etld_list') ELSE total

\* the store and the total after a call with outcome r
Applied(r) ==
    /\ etld_list' = IF r.cleared THEN r.lists ELSE etld_list
    /\ total' = IF r.tidied THEN CountAll(r.lists) ELSE total

LoadFromFile(file_path) ==
    LET r == load_public_suffix_from_file(file_path, allow_private_tlds)
    IN  /\ Applied(r)
        /\ last' = [op |-> "load_file", arg |-> file_path, ret |-> r.ret]
        /\ UNCHANGED <<allow_private_tlds, list, hist, url, procs>>

\* download_public_suffix_file up to its retry loop; url_ok is what Url::parse
\* says of the address, src the file its server holds
DownloadBegin(src, url_ok) ==
    /\ dl.pc = "idle"
    /\ IF url_ok
       THEN /\ dl' = [pc |-> "attempt", src |-> src, attempt |-> 1,
                      slept |-> <<>>, last_error |-> ""]
            /\ UNCHANGED last
       ELSE /\ dl' = NoDownload
            /\ last' = [op |-> "download", arg |-> src, ret |-> Err("PublicSuffixDownload"),
                        met |-> "bad_url", attempts |-> 0, slept |-> <<>>]
    /\ UNCHANGED <<etld_list, total, allow_private_tlds, list, hist, url, reload, global, threads>>

\* one turn of the retry loop: a successful attempt is parsed and returned, a
\* failed one is remembered and followed by a sleep, or returned when it is
\* the last; the call returned is recorded with what its last attempt met,
\* the number of attempts made and the delays slept
DownloadAttempt(outcome) ==
    LET got == attempt_download(outcome, dl.src)
        r == IF got.ok THEN ParseOf[dl.src][allow_private_tlds] ELSE Refused(got.err)
    IN  /\ dl.pc = "attempt"
        /\ Applied(r)
        /\ IF got.ok
           THEN /\ dl' = NoDownload
                /\ last' = [op |-> "download", arg |-> dl.src, ret |-> r.ret,
                            met |-> outcome, attempts |-> dl.attempt, slept |-> dl.slept]
           ELSE IF dl.attempt < MAX_RETRIES
           THEN /\ dl' = [dl EXCEPT !.pc = "sleep", !.last_error = got.err,
                                    !.slept = Append(@, Backoff(dl.attempt))]
                /\ UNCHANGED last
           ELSE /\ dl' = NoDownload
                /\ last' = [op |-> "download", arg |-> dl.src, ret |-> Err(got.err),
                            met |-> outcome, attempts |-> dl.attempt, slept |-> dl.slept]
        /\ UNCHANGED <<allow_private_tlds, list, hist, url, reload, global, threads>>

\* the sleep is over: the next attempt
DownloadWake ==
    /\ dl.pc = "sleep"
    /\ dl' = [dl EXCEPT !.pc = "attempt", !.attempt = @ + 1]
    /\ UNCHANGED <<etld_list, total, allow_private_tlds, list, hist, url, last, reload, global, threads>>

FindTld ==
    /\ last' = [op |-> "find_tld", arg |-> url, ret |-> find_tld(etld_list, url)]
    /\ UNCHANGED <<etld_list, total, allow_private_tlds, list, hist, url, procs>>

NextLoad ==
    \/ \E file_path \in Paths : LoadFromFile(file_path)
    \/ \E src \in DownloadSources, url_ok \in BOOLEAN : DownloadBegin(src, url_ok)
    \/ \E outcome \in AttemptOutcomes : DownloadAttempt(outcome)
    \/ DownloadWake
    \/ FindTld

SpecLoad == InitLoad /\ [][NextLoad]_vars

---------------------------------------------------------------------------
(* A reload of a loaded manager beside its readers: the steps of           *)
(* parse_public_suffix_data, one lock acquisition at a time                *)

ReloadUrls == {"a.co.uk", "www.x.com", "b.io"}
ReloadSources == {"full", "small", "wrong_format"}

\* the manager after Fqdn::new has loaded the list
InitReload ==
    /\ allow_private_tlds \in BOOLEAN
    /\ etld_list = ParseOf["full"][allow_private_tlds].lists
    /\ total = CountAll(etld_list)
    /\ list = <<>>
    /\ hist = [added |-> {}, sealed |-> TRUE]
    /\ url \in ReloadUrls
    /\ last = NoCall
    /\ dl = NoDownload
    /\ reload = NoReload
    /\ global = NoGlobal
    /\ threads = NoThreads

\* the reload has returned
ReloadReturn(ret) ==
    /\ last' = [op |-> "reload", arg |-> reload.src, ret |-> ret]
    /\ reload' = NoReload

\* the gates on the bytes, before any bucket is touched
ReloadBegin(src) ==
    /\ reload.pc = "idle"
    /\ IF ~DataFile[src].utf8 \/ Len(DataFile[src].lines) = 0
       THEN /\ last' = [op |-> "reload", arg |-> src, ret |-> Err("PublicSuffixParse")]
            /\ UNCHANGED reload
       ELSE IF ~FoundMarker(DataFile[src].lines)
       THEN /\ last' = [op |-> "reload", arg |-> src, ret |-> Err("PublicSuffixFormat")]
            /\ UNCHANGED reload
       ELSE /\ last' = NoCall
            /\ reload' = [pc |-> "clear", src |-> src, n |-> 0, i |-> 1,
                          icann |-> FALSE, processed_count |-> 0,
                          pending |-> {}, old |-> etld_list]
    /\ UNCHANGED <<etld_list, total, allow_private_tlds, list, hist, url, dl, global, threads>>

\* etld.clear() on the next bucket
ReloadClear ==
    /\ reload.pc = "clear"
    /\ etld_list' = [etld_list EXCEPT ![reload.n] = <<>>]
    /\ reload' = IF reload.n + 1 < ETLD_GROUP_MAX
                 THEN [reload EXCEPT !.n = @ + 1]
                 ELSE [reload EXCEPT !.pc = "lines"]
    /\ UNCHANGED <<total, allow_private_tlds, list, hist, url, last, dl, global, threads>>

\* one iteration of the line loop
ReloadLine ==
    LET acc == ProcessLine([lists |-> etld_list, icann |-> reload.icann,
                            processed_count |-> reload.processed_count,
                            failed |-> FALSE],
                           DataFile[reload.src].lines[reload.i], allow_private_tlds)
    IN  /\ reload.pc = "lines"
        /\ reload.i <= Len(DataFile[reload.src].lines)
        /\ etld_list' = acc.lists
        /\ IF acc.failed
           THEN ReloadReturn(Err("PublicSuffixParse"))
           ELSE /\ reload' = [reload EXCEPT !.i = @ + 1, !.icann = acc.icann,
                                            !.processed_count = acc.processed_count]
                /\ UNCHANGED last
        /\ UNCHANGED <<total, allow_private_tlds, list, hist, url, dl, global, threads>>

\* after the last line: the floor on the entries processed, then tidy spawns
\* one sort task for each bucket
ReloadSpawn ==
    /\ reload.pc = "lines"
    /\ reload.i > Len(DataFile[reload.src].lines)
    /\ IF reload.processed_count < MIN_ENTRIES
       THEN ReloadReturn(Err("PublicSuffixParse"))
       ELSE /\ reload' = [reload EXCEPT !.pc = "sort", !.pending = Buckets]
            /\ UNCHANGED last
    /\ UNCHANGED <<etld_list, total, allow_private_tlds, list, hist, url, dl, global, threads>>

\* the sort task of bucket n
ReloadSort(n) ==
    /\ reload.pc = "sort"
    /\ n \in reload.pending
    /\ etld_list' = [etld_list EXCEPT ![n] = SortList(@)]
    /\ reload' = [reload EXCEPT !.pending = @ \ {n}]
    /\ UNCHANGED <<total, allow_private_tlds, list, hist, url, last, dl, global, threads>>

\* a tidy that does not wait for its sort tasks
AllJoinedEarly(pending) == TRUE

\* while let Some(_) = join_set.join_next().await {}
AllJoined(pending) == pending = {}

\* every sort task has been joined: tidy stores the total, the parse returns
ReloadTotal ==
    /\ reload.pc = "sort"
    /\ AllJoined(reload.pending)
    /\ total' = CountAll(etld_list)
    /\ ReloadReturn(Ok(""))
    /\ UNCHANGED <<etld_list, allow_private_tlds, list, hist, url, dl, global, threads>>

NextReload ==
    \/ \E src \in ReloadSources : ReloadBegin(src)
    \/ ReloadClear
    \/ ReloadLine
    \/ ReloadSpawn
    \/ \E n \in Buckets : ReloadSort(n)
    \/ ReloadTotal
    \/ GetFqdn

SpecReload == InitReload /\ [][NextReload]_vars

---------------------------------------------------------------------------
(* The global manager: tasks calling init and get_fqdn                     *)

\* the options a caller can pass to init; get_global_manager passes None
GlobalOpts == {"default", "custom"}

InitGlobal ==
    /\ etld_list = EmptyStore
    /\ total = 0
    /\ allow_private_tlds = FALSE
    /\ list = <<>>
    /\ hist = [added |-> {}, sealed |-> TRUE]
    /\ url = ""
    /\ last = NoCall
    /\ dl = NoDownload
    /\ reload = NoReload
    /\ global = NoGlobal
    /\ threads = NoThreads

\* the Fqdn built by task t from its options
Instance(t, opts) == ToString(t) \o "/" \o opts

\* a test that takes the manager for unset whatever the lock holds
IsNoneAlways(manager) == TRUE

\* manager_guard.is_none()
IsNone(manager) == manager = None

\* init returns to its caller: to the task for a call of init, into
\* get_global_manager (which reads again after Ok, returns the error otherwise)
InitReturns(t, ret) ==
    IF global.task[t].op = "get_fqdn" /\ ret.ok
    THEN [global.task[t] EXCEPT !.pc = "reread"]
    ELSE [global.task[t] EXCEPT !.pc = "idle", !.ret = ret]

\* a task calls init(opts): it asks for the write lock
CallInit(t, opts) ==
    /\ global.task[t].pc = "idle"
    /\ global' = [global EXCEPT !.task[t] =
                     [pc |-> "write", op |-> "init", opts |-> opts,
                      ret |-> Ok(""), got |-> None]]
    /\ UNCHANGED <<etld_list, total, allow_private_tlds, list, hist, url, last, dl, reload, threads>>

\* a task calls get_fqdn: get_global_manager asks for the read lock
CallGetFqdn(t) ==
    /\ global.task[t].pc = "idle"
    /\ global' = [global EXCEPT !.task[t] =
                     [pc |-> "read", op |-> "get_fqdn", opts |-> "default",
                      ret |-> Ok(""), got |-> None]]
    /\ UNCHANGED <<etld_list, total, allow_private_tlds, list, hist, url, last, dl, reload, threads>>

\* get_global_manager holds the read lock: the manager if there is one,
\* init(None) otherwise
ReadManager(t) ==
    /\ global.task[t].pc = "read"
    /\ global.writer = 0
    /\ global' = [global EXCEPT !.task[t] =
                     IF global.manager.some
                     THEN [@ EXCEPT !.pc = "idle", !.got = global.manager]
                     ELSE [@ EXCEPT !.pc = "write"]]
    /\ UNCHANGED <<etld_list, total, allow_private_tlds, list, hist, url, last, dl, reload, threads>>

\* init holds the write lock: Fqdn::new starts under the lock when the
\* manager is unset, otherwise the guard is dropped and init returns Ok
WriteLocked(t) ==
    /\ global.task[t].pc = "write"
    /\ global.writer = 0
    /\ global' = IF IsNone(global.manager)
                 THEN [global EXCEPT !.writer = t, !.task[t].pc = "loading"]
                 ELSE [global EXCEPT !.task[t] = InitReturns(t, Ok(""))]
    /\ UNCHANGED <<etld_list, total, allow_private_tlds, list, hist, url, last, dl, reload, threads>>

\* Fqdn::new returns: the new instance is stored, or the error leaves the
\* manager as it was; the write guard is dropped either way
LoadDone(t, ret) ==
    /\ global.task[t].pc = "loading"
    /\ global' = [global EXCEPT
                     !.writer = 0,
                     !.manager = IF ret.ok
                                 THEN Some(Instance(t, global.task[t].opts))
                                 ELSE @,
                     !.task[t] = InitReturns(t, ret)]
    /\ UNCHANGED <<etld_list, total, allow_private_tlds, list, hist, url, last, dl, reload, threads>>

\* get_global_manager reads again after its init(None)
Reread(t) ==
    /\ global.task[t].pc = "reread"
    /\ global.writer = 0
    /\ global' = [global EXCEPT !.task[t] =
                     IF global.manager.some
                     THEN [@ EXCEPT !.pc = "idle", !.got = global.manager]
                     ELSE [@ EXCEPT !.pc = "idle",
                                    !.ret = Err("PublicSuffixDownload")]]
    /\ UNCHANGED <<etld_list, total, allow_private_tlds, list, hist, url, last, dl, reload, threads>>

\* the ways Fqdn::new can end
LoadResults == {Ok(""), Err("PublicSuffixDownload"), Err("PublicSuffixParse"),
                Err("PublicSuffixFormat")}

NextGlobal ==
    \/ \E t \in Tasks, opts \in GlobalOpts : CallInit(t, opts)
    \/ \E t \in Tasks : CallGetFqdn(t)
    \/ \E t \in Tasks : ReadManager(t)
    \/ \E t \in Tasks : WriteLocked(t)
    \/ \E t \in Tasks, ret \in LoadResults : LoadDone(t, ret)
    \/ \E t \in Tasks : Reread(t)

SpecGlobal == InitGlobal /\ [][NextGlobal]_vars

---------------------------------------------------------------------------
(* The global entry points get_fqdn and validate_origin                    *)

OriginUrls == Examples \cup DecoHosts \cup
              {"", "https://www.example.com", "https://a.co.uk:8080/path",
               "x.a.co.uk", "WWW.A.CO.UK", "co.uk"}

\* allowed_origins
AllowLists == {<<>>, <<"example.com", "test.com">>, <<"a.co.uk">>,
               <<"test.com", "a.co.uk">>, <<"A.CO.UK">>, <<"co.uk", "google.com">>,
               <<"">>}

InitOrigin ==
    /\ etld_list = EmptyStore
    /\ total = 0
    /\ allow_private_tlds = FALSE
    /\ list = <<>>
    /\ hist = [added |-> {}, sealed |-> TRUE]
    /\ url \in OriginUrls
    /\ last = NoCall
    /\ dl = NoDownload
    /\ reload = NoReload
    /\ global = NoGlobal
    /\ threads = NoThreads

\* get_global_manager: an unset manager is loaded by init(None) with the
\* default options; new_ret is how that Fqdn::new ends
GetGlobalManager(new_ret) ==
    IF global.manager.some \/ ~new_ret.ok
    THEN UNCHANGED <<etld_list, total, global>>
    ELSE /\ global' = [global EXCEPT !.manager = Some(Instance(1, "default"))]
         /\ etld_list' = ParseOf["full"][allow_private_tlds].lists
         /\ total' = CountAll(ParseOf["full"][allow_private_tlds].lists)

\* the global get_fqdn: the error of get_global_manager, or the manager's answer
global_get_fqdn(manager, new_ret, store, src_url) ==
    IF ~manager.some /\ ~new_ret.ok THEN new_ret ELSE get_fqdn(store, src_url)

\* a comparison with the allowed origins that ignores case
validate_origin_nocase(res, allowed_origins) ==
    IF res.ok
    THEN \E k \in DOMAIN allowed_origins : res.val = ToLowercase(allowed_origins[k])
    ELSE FALSE

\* validate_origin, on the result res of get_fqdn(origin)
validate_origin(res, allowed_origins) ==
    IF res.ok
    THEN \E k \in DOMAIN allowed_origins : res.val = allowed_origins[k]
    ELSE FALSE

GlobalGetFqdn(new_ret) ==
    /\ GetGlobalManager(new_ret)
    /\ last' = [op |-> "global_get_fqdn", arg |-> url,
                ret |-> global_get_fqdn(global.manager, new_ret, etld_list', url)]
    /\ UNCHANGED <<allow_private_tlds, list, hist, url, dl, reload, threads>>

ValidateOrigin(allowed_origins, new_ret) ==
    /\ GetGlobalManager(new_ret)
    /\ last' = [op |-> "validate_origin", arg |-> url, allowed |-> allowed_origins,
                manager |-> global'.manager, new_ret |-> new_ret,
                ret |-> validate_origin(
                            global_get_fqdn(global.manager, new_ret, etld_list', url),
                            allowed_origins)]
    /\ UNCHANGED <<allow_private_tlds, list, hist, url, dl, reload, threads>>

NextOrigin ==
    \/ \E new_ret \in LoadResults : GlobalGetFqdn(new_ret)
    \/ \E allowed_origins \in AllowLists, new_ret \in LoadResults :
          ValidateOrigin(allowed_origins, new_ret)

SpecOrigin == InitOrigin /\ [][NextOrigin]_vars

---------------------------------------------------------------------------
(* Readers of one sealed manager: get_fqdn in its steps, one bucket read   *)
(* lock at a time, and the introspection calls                             *)

MaxReaders == 2
Readers == 1..MaxReaders

ReadUrls == {"x.a.co.uk", "a.a.a.a.a.co.uk", "https://www.x.yz:8080/path"}

IdleReader == [pc |-> "idle", url |-> "", clean_url |-> "", i |-> 0, ret |-> Ok("")]

InitRead ==
    /\ allow_private_tlds \in BOOLEAN
    /\ etld_list = ParseOf["full"][allow_private_tlds].lists
    /\ total = CountAll(etld_list)
    /\ list = <<>>
    /\ hist = [added |-> {}, sealed |-> TRUE]
    /\ url = ""
    /\ last = NoCall
    /\ dl = NoDownload
    /\ reload = NoReload
    /\ global = NoGlobal
    /\ threads = [r \in Readers |-> IdleReader]

\* get_fqdn has returned ret
Returned(rd, ret) == [rd EXCEPT !.pc = "done", !.ret = ret]

\* get_fqdn up to the call of find_tld: nothing of the store is read
ReaderStart(src_url) ==
    LET rd == [IdleReader EXCEPT !.url = src_url]
        parsed == UrlParse(UrlString(src_url))
        clean_url == CleanUrl(UrlString(src_url), parsed)
    IN  IF EarlyReject(src_url) THEN Returned(rd, Err("InvalidUrl"))
        ELSE IF ~parsed.ok THEN Returned(rd, Err("InvalidUrl"))
        ELSE [rd EXCEPT !.pc = "find_tld", !.clean_url = clean_url,
                        !.i = MatchesCount(clean_url, ".")]

\* a loop that steps over every other index
NextIndexSkip(i) == i - 2

\* for i in (1..=dots).rev()
NextIndex(i) == i - 1

\* one iteration of the loop of find_tld, or its end, then the rest of get_fqdn
ReaderIteration(rd, store) ==
    LET g == guess(rd.clean_url, rd.i)
        found == EtldSearch(store[BucketFor(rd.i)], g.val)
    IN  IF rd.i < 1 \/ MatchesCount(rd.clean_url, ".") < 1
        THEN Returned(rd, ResolveTld(rd.clean_url, Ok("")))
        ELSE IF g = Panic THEN Returned(rd, Panic)
        ELSE IF g.ok /\ WithinGroupMax(rd.i)
        THEN IF BucketFor(rd.i) \notin DOMAIN store THEN Returned(rd, Panic)
             ELSE IF found[2] THEN Returned(rd, ResolveTld(rd.clean_url, Ok(found[1])))
             ELSE [rd EXCEPT !.i = NextIndex(rd.i)]
        ELSE [rd EXCEPT !.i = NextIndex(rd.i)]

ReaderCall(r, src_url) ==
    /\ threads[r].pc \in {"idle", "done"}
    /\ threads' = [threads EXCEPT ![r] = ReaderStart(src_url)]
    /\ UNCHANGED <<etld_list, total, allow_private_tlds, list, hist, url, last, dl, reload,
                   global>>

ReaderSearch(r) ==
    /\ threads[r].pc = "find_tld"
    /\ threads' = [threads EXCEPT ![r] = ReaderIteration(threads[r], etld_list)]
    /\ UNCHANGED <<etld_list, total, allow_private_tlds, list, hist, url, last, dl, reload,
                   global>>

\* Fqdn::count_for_dots
count_for_dots(store, dots) == IF dots < ETLD_GROUP_MAX THEN Len(store[dots]) ELSE 0

\* Fqdn::is_initialized, on the cached total
is_initialized(cached) == cached > 0

\* Fqdn::get_statistics
get_statistics(store) == [k \in 1..ETLD_GROUP_MAX |-> <<k - 1, count_for_dots(store, k - 1)>>]

\* total, count_for_dots, is_initialized, get_statistics
Introspect(op, dots) ==
    /\ last' = [op |-> op, arg |-> dots,
                ret |-> CASE op = "total" -> total
                          [] op = "count_for_dots" -> count_for_dots(etld_list, dots)
                          [] op = "is_initialized" -> is_initialized(total)
                          [] op = "get_statistics" -> get_statistics(etld_list)]
    /\ UNCHANGED <<etld_list, total, allow_private_tlds, list, hist, url, procs>>

NextRead ==
    \/ \E r \in Readers, src_url \in ReadUrls : ReaderCall(r, src_url)
    \/ \E r \in Readers : ReaderSearch(r)
    \/ Introspect("total", 0)
    \/ \E dots \in {1, ETLD_GROUP_MAX} : Introspect("count_for_dots", dots)
    \/ Introspect("is_initialized", 0)
    \/ Introspect("get_statistics", 0)

SpecRead == InitRead /\ [][NextRead]_vars

---------------------------------------------------------------------------
(* Threads on one Etld: add under the write lock of the list, search under *)
(* its read lock                                                           *)

MaxThreads == 2
Threads == 1..MaxThreads

\* the bucket as the threads find it: new, or filled and sorted
SortedLists == {<<>>, <<"com", "org">>}

\* the strings the threads add and search for
ThreadStrings == {"com", "org", "co.uk", "net"}

IdleThread == [pc |-> "idle", s |-> "", dup |-> FALSE]

InitThreads ==
    /\ etld_list = EmptyStore
    /\ total = 0
    /\ allow_private_tlds = FALSE
    /\ list \in SortedLists
    /\ hist = [added |-> {}, at_sort |-> Range(list), wins |-> [s \in ThreadStrings |-> 0]]
    /\ url = ""
    /\ last = NoCall
    /\ dl = NoDownload
    /\ reload = NoReload
    /\ global = NoGlobal
    /\ threads = [writer |-> 0, t |-> [w \in Threads |-> IdleThread]]

\* a lock that lets a second writer in
WriteLockFreeAlways(holder) == TRUE

\* self.list.write(): granted when no other thread holds the lock
WriteLockFree(holder) == holder = 0

\* a thread calls add(s, false) and asks for the write lock
AddCall(w, s) ==
    /\ threads.t[w].pc = "idle"
    /\ threads' = [threads EXCEPT !.t[w] = [pc |-> "write", s |-> s, dup |-> FALSE]]
    /\ UNCHANGED <<etld_list, total, allow_private_tlds, list, hist, url, last, dl, reload,
                   global>>

\* the write lock is granted; list.contains(&s)
AddContains(w) ==
    /\ threads.t[w].pc = "write"
    /\ WriteLockFree(threads.writer)
    /\ threads' = [threads EXCEPT !.writer = w,
                                  !.t[w].pc = "locked",
                                  !.t[w].dup = ListContains(list, threads.t[w].s)]
    /\ UNCHANGED <<etld_list, total, allow_private_tlds, list, hist, url, last, dl, reload,
                   global>>

\* the early return, or the push; the guard is dropped as add returns
AddPush(w) ==
    /\ threads.t[w].pc = "locked"
    /\ list' = IF threads.t[w].dup THEN list ELSE Append(list, threads.t[w].s)
    /\ hist' = [hist EXCEPT !.added = @ \cup {threads.t[w].s},
                            !.wins[threads.t[w].s] =
                                IF Len(list') > Len(list) THEN @ + 1 ELSE @]
    /\ threads' = [threads EXCEPT !.writer = IF @ = w THEN 0 ELSE @,
                                  !.t[w] = IdleThread]
    /\ UNCHANGED <<etld_list, total, allow_private_tlds, url, last, dl, reload, global>>

\* search(s) under the read lock, which no writer holds
ThreadSearch(s) ==
    /\ threads.writer = 0
    /\ last' = [op |-> "search", arg |-> s, ret |-> EtldSearch(list, s)]
    /\ UNCHANGED <<etld_list, total, allow_private_tlds, list, hist, url, procs>>

NextThreads ==
    \/ \E w \in Threads, s \in ThreadStrings : AddCall(w, s)
    \/ \E w \in Threads : AddContains(w)
    \/ \E w \in Threads : AddPush(w)
    \/ \E s \in ThreadStrings : ThreadSearch(s)

SpecThreads == InitThreads /\ [][NextThreads]_vars

---------------------------------------------------------------------------
(* Properties of the resolver                                              *)

\* the last operation was a lookup of url
Called == last.op = "get_fqdn"

\* every bucket of the store is in sorted order
StoreSorted == \A n \in Buckets : IsSorted(etld_list[n])

\* s is an entry of some bucket
Stored(s) == \E n \in Buckets : ListContains(etld_list[n], s)

\* inputs that are a host and nothing else
BareUrls == BareHosts \cup DeepHosts \cup
            {"a.io", "example.co.uk", "subdomain.example.co.uk",
             "mail.accounts.google.com", "example.unknown-tld"}

\* the last i labels of h
LastLabels(h, i) ==
    LET groups == Split(h, ".")
    IN  Join(SubSeq(groups, Len(groups) - i + 1, Len(groups)), ".")

\* the numbers i for which the last i labels of h, a proper tail of h, are stored
StoredTrailing(h) == {i \in 1..MatchesCount(h, ".") : Stored(LastLabels(h, i))}

Max(S) == CHOOSE x \in S : \A y \in S : y <= x

EndsWith(s, t) == Len(t) <= Len(s) /\ SubSeq(s, Len(s) - Len(t) + 1, Len(s)) = t

\* every label of h is non-empty
WellFormed(h) == \A k \in DOMAIN Split(h, ".") : Split(h, ".")[k] # ""

\* the host get_fqdn hands to find_tld once the input has parsed
BareOf(src_url) == CleanUrl(UrlString(src_url), UrlParse(UrlString(src_url)))

\* C1: on a sorted store, a lookup of a host matches the longest trailing
\* label sequence that is stored: the result is never InvalidTld when one is
\* stored, a successful result ends with "." and that longest sequence and has
\* exactly one label in front of it, and InvalidTld is returned when none is
\* stored; with uk and co.uk stored, example.co.uk and
\* subdomain.example.co.uk both give example.co.uk
C1_LongestMatchWins ==
    (Called /\ StoreSorted /\ url \in BareUrls /\ ~EarlyReject(url)) =>
        /\ IF StoredTrailing(url) = {}
           THEN last.ret = Err("InvalidTld")
           ELSE LET s == LastLabels(url, Max(StoredTrailing(url)))
                IN  /\ last.ret.err # "InvalidTld"
                    /\ last.ret.ok =>
                         /\ EndsWith(last.ret.val, "." \o s)
                         /\ MatchesCount(last.ret.val, ".") = MatchesCount(s, ".") + 1
        /\ (url \in {"example.co.uk", "subdomain.example.co.uk"}
              /\ Stored("uk") /\ Stored("co.uk"))
             => last.ret = Ok("example.co.uk")

\* a lookup of subdomain.example.co.uk on a sorted store holding uk and co.uk
C1_Witness ==
    /\ Called /\ StoreSorted /\ url = "subdomain.example.co.uk"
    /\ Stored("uk") /\ Stored("co.uk")
    /\ last.ret = Ok("example.co.uk")

\* C2: when find_tld matches the suffix s in a host of non-empty labels, the
\* result is the label right in front of the trailing s, a dot, and s
C2_RegistrableLabel ==
    (Called /\ StoreSorted /\ url \in BareUrls /\ WellFormed(url)
       /\ ~EarlyReject(url) /\ find_tld(etld_list, url).val # "") =>
        LET s == find_tld(etld_list, url).val
            groups == Split(url, ".")
            label == groups[Len(groups) - MatchesCount(s, ".") - 1]
        IN  last.ret = Ok(label \o "." \o s)

\* C3: on a sorted store, a scheme, a port, a path and a query around a host
\* that resolves leave the result what it is for the host alone
C3_DecorationsIgnored ==
    (Called /\ StoreSorted) =>
        \A h \in DecoHosts, d \in Decorations :
            (url = Decorate(h, d[1], d[2], d[3], d[4]) /\ get_fqdn(etld_list, h).ok)
                => last.ret = get_fqdn(etld_list, h)

\* C4: an input that is empty, shorter than 4 characters or without a dot is
\* refused with InvalidUrl whatever the store holds, and the 4-character
\* input a.io resolves to a.io when io is loaded
C4_EarlyRejection ==
    /\ (Called /\ (url = "" \/ Len(url) < 4 \/ ~Contains(url, ".")))
         => last.ret = Err("InvalidUrl")
    /\ (Called /\ url = "a.io" /\ StoreSorted /\ Stored("io"))
         => last.ret = Ok("a.io")

\* a three-character input with a dot refused on a loaded store
C4_Witness ==
    /\ Called /\ Len(url) = 3 /\ Contains(url, ".") /\ Stored("uk") /\ total > 0
    /\ last.ret = Err("InvalidUrl")

C6_NoPanic ==
    Called => (last.ret.ok \/ last.ret.err \in {"InvalidUrl", "InvalidTld"})

\* a host of MaxDepth labels resolved through its two-label suffix
C6_Witness ==
    /\ Called /\ MatchesCount(url, ".") >= ETLD_GROUP_MAX
    /\ last.ret = Ok("a.co.uk")

\* C7: on a sorted store, a successful result is one non-empty, dot-free
\* label, a dot, and a suffix that is in the store
C7_OkShape ==
    (Called /\ StoreSorted /\ last.ret.ok) =>
        \E n \in Buckets : \E i \in DOMAIN etld_list[n] :
            LET sfx == etld_list[n][i]
                k == Len(last.ret.val) - Len(sfx) - 1
            IN  /\ k >= 1
                /\ SubSeq(last.ret.val, k + 1, Len(last.ret.val)) = "." \o sfx
                /\ ~Contains(SubSeq(last.ret.val, 1, k), ".")

\* C10: a reload that fails leaves a loaded store as it was: the buckets and
\* the total are unchanged
C10_FailedReloadKeepsStore ==
    [][(last'.op = "load" /\ ~last'.ret.ok /\ total > 0)
         => (etld_list' = etld_list /\ total' = total)]_vars

---------------------------------------------------------------------------
(* Properties of one bucket                                                *)

NoDuplicates(l) == \A i, j \in DOMAIN l : l[i] = l[j] => i = j

\* C8: add(s) returns false and leaves the bucket unchanged when s is in it,
\* and otherwise puts s in and returns true; the bucket never holds an entry
\* twice, and its length is the number of distinct strings added since the
\* last clear
C8_AddKeepsSet ==
    [][/\ last'.op = "add" =>
            IF ListContains(list, last'.arg)
            THEN list' = list /\ last'.ret = FALSE
            ELSE /\ list' \in {Append(list, last'.arg),
                               SortList(Append(list, last'.arg))}
                 /\ last'.ret = TRUE
       /\ NoDuplicates(list')
       /\ Len(list') = Cardinality(hist'.added)]_vars

\* an add of a string the bucket already holds, refused
C8_Witness ==
    /\ last.op = "add" /\ last.ret = FALSE
    /\ Len(list) >= 2 /\ ListContains(list, last.arg)

\* C9: once the bucket has been sorted after its last effective add, a search
\* for s returns (s, true) when s was added since the last clear and
\* ("", false) otherwise, the empty bucket included
C9_SearchAfterSort ==
    (last.op = "search" /\ hist.sealed) =>
        last.ret = IF last.arg \in hist.added
                   THEN <<last.arg, TRUE>> ELSE <<"", FALSE>>

\* a hit in a sorted bucket of at least three entries
C9_Witness ==
    /\ last.op = "search" /\ hist.sealed /\ Len(list) >= 3
    /\ last.ret = <<last.arg, TRUE>>

---------------------------------------------------------------------------
(* Properties of the loader                                                *)

\* the entries in the buckets, as a set
StoredSet(store) == UNION {Range(store[n]) : n \in Buckets}

\* the line is one of the two ICANN marker lines
IsMarkerLine(line) == Contains(line, BEGIN_ICANN) \/ Contains(line, END_ICANN)

\* line i lies after a BEGIN ICANN marker with no END ICANN marker in between
InSection(lines, i) ==
    \E j \in 1..(i - 1) :
        /\ Contains(lines[j], BEGIN_ICANN)
        /\ \A k \in (j + 1)..(i - 1) :
              Contains(lines[k], END_ICANN) => Contains(lines[k], BEGIN_ICANN)

\* line i is a rule line the section filter lets through
RuleLine(lines, i, allow_private) ==
    /\ Trim(lines[i]) # ""
    /\ ~IsMarkerLine(lines[i])
    /\ ~StartsWith(Trim(lines[i]), "//")
    /\ ~StartsWith(Trim(lines[i]), "*")
    /\ ~StartsWith(Trim(lines[i]), "!")
    /\ (allow_private \/ InSection(lines, i))

\* the entries a list should leave in the store
ExpectedEntries(data, allow_private) ==
    {ToLowercase(Trim(data.lines[i])) :
        i \in {k \in DOMAIN data.lines :
                  /\ RuleLine(data.lines, k, allow_private)
                  /\ MatchesCount(data.lines[k], ".") < ETLD_GROUP_MAX}}

ExpectedOf ==
    [f \in FileNames |-> [ap \in BOOLEAN |-> ExpectedEntries(DataFile[f], ap)]]

\* the list has a rule line of more than 253 characters
HasLongRule(data, allow_private) ==
    \E i \in DOMAIN data.lines :
        RuleLine(data.lines, i, allow_private) /\ Len(Trim(data.lines[i])) > 253

LongRuleOf == [f \in FileNames |-> [ap \in BOOLEAN |-> HasLongRule(DataFile[f], ap)]]

\* none of the first 50 lines holds a marker string
NoMarkerInHead(lines) ==
    \A i \in 1..Len(lines) :
        i <= 50 => \A m \in DOMAIN MARKERS : ~Contains(lines[i], MARKERS[m])

NoMarkerOf == [f \in FileNames |-> NoMarkerInHead(DataFile[f].lines)]

\* the last call was a file load of one of the files
FileLoaded == last.op = "load_file" /\ last.arg \in FileNames

\* the file passes the size checks, is UTF-8 and carries a marker in its head
PassesGates(f) ==
    /\ FileSize[f] >= 32768
    /\ FileSize[f] <= MAX_FILE_SIZE
    /\ DataFile[f].utf8
    /\ Len(DataFile[f].lines) > 0
    /\ ~NoMarkerOf[f]

\* a store as a successful load leaves it
Ready(store, count) ==
    /\ \A n \in Buckets : IsSorted(store[n])
    /\ count = CountAll(store) /\ count > 0

\* the host ends in a suffix that is an entry of both stores
SuffixInBoth(host, old, new) ==
    \E e \in StoredSet(old) \cap StoredSet(new) : EndsWith(host, "." \o e)

\* C11: while a reload of a ready store runs, every bucket holds its complete
\* content of before the reload or its complete content of after it, and a
\* lookup made during the reload of a host whose suffix is in the old and in
\* the new list does not fail with InvalidTld
C11_ReadersSeeOldOrNew ==
    (/\ reload.pc # "idle"
     /\ Ready(reload.old, total)
     /\ ParseOf[reload.src][allow_private_tlds].ret.ok)
        => /\ \A n \in Buckets :
                \/ etld_list[n] = reload.old[n]
                \/ etld_list[n] = ParseOf[reload.src][allow_private_tlds].lists[n]
           /\ (last.op = "get_fqdn"
                 /\ SuffixInBoth(last.arg, reload.old,
                                 ParseOf[reload.src][allow_private_tlds].lists))
                => last.ret # Err("InvalidTld")

\* C12: a source of fewer than 32768 bytes fails with PublicSuffixParse through
\* both entry points and the store is not modified: the file load returns
\* PublicSuffixParse, no download of it succeeds, and a download whose last
\* attempt received the body returns PublicSuffixParse
C12_SizeFloor ==
    [][/\ (last'.op = "load_file" /\ last'.arg \in FileNames /\ last' # last
             /\ FileSize[last'.arg] < 32768)
            => /\ last'.ret = Err("PublicSuffixParse")
               /\ etld_list' = etld_list /\ total' = total
       /\ (dl.pc = "attempt" /\ dl' # dl /\ FileSize[dl.src] < 32768)
            => /\ etld_list' = etld_list /\ total' = total
               /\ (last' # last /\ last'.op = "download")
                    => /\ ~last'.ret.ok
                       /\ last'.met = "body" => last'.ret = Err("PublicSuffixParse")]_vars

\* a download of the file below the floor has failed on a loaded store
C12_Witness ==
    /\ last.op = "download" /\ last.arg = "tiny" /\ last.met = "body"
    /\ last.ret = Err("PublicSuffixParse")
    /\ total > 0 /\ ~ListContains(etld_list[0], "x13")

\* C13 as stated: a valid UTF-8 buffer without a marker in its first 50 lines
\* fails with PublicSuffixFormat
C13_NoMarkerIsFormatError ==
    (last.op = "load" /\ DataFile[last.arg].utf8 /\ NoMarkerOf[last.arg])
        => last.ret = Err("PublicSuffixFormat")

\* C13 amended: a valid UTF-8 buffer of at least one line without a marker in
\* its first 50 lines fails with PublicSuffixFormat, whatever follows
C13_NoMarkerNonEmpty ==
    (last.op = "load" /\ DataFile[last.arg].utf8 /\ Len(DataFile[last.arg].lines) > 0
       /\ NoMarkerOf[last.arg])
        => last.ret = Err("PublicSuffixFormat")

\* a list whose first marker is on line 51, with enough entries after it, refused
C13_Witness ==
    /\ last.op = "load" /\ last.arg = "wrong_format"
    /\ Contains(DataFile[last.arg].lines[51], BEGIN_ICANN)
    /\ Cardinality(ExpectedOf[last.arg][allow_private_tlds]) >= MIN_ENTRIES
    /\ last.ret = Err("PublicSuffixFormat")

C15_TestFileLoads ==
    (FileLoaded /\ last.arg = "test_file")
        => /\ last.ret.ok
           /\ total > 0
           /\ find_tld(etld_list, "example.com") = Ok("com")
           /\ find_tld(etld_list, "test.co.uk") = Ok("co.uk")

\* C16: after a successful load the stored entries are exactly the trimmed,
\* lowercased rule lines with fewer than 5 dots, those outside the ICANN
\* section included only when allow_private_tlds is set
C16_LineFiltering ==
    ((FileLoaded \/ last.op = "download") /\ last.ret.ok)
        => StoredSet(etld_list) = ExpectedOf[last.arg][allow_private_tlds]

\* the full list loaded with private suffixes allowed: b.uk from outside the
\* section is stored, the wildcard and the six-label rule are not
C16_Witness ==
    /\ FileLoaded /\ last.arg = "full" /\ last.ret.ok /\ allow_private_tlds
    /\ "b.uk" \in StoredSet(etld_list)
    /\ "io" \in StoredSet(etld_list)
    /\ "*.ck" \notin StoredSet(etld_list)
    /\ "a.b.c.d.e.uk" \notin StoredSet(etld_list)

\* C17 as stated: a list with a rule line of more than 253 characters that no
\* filter removes fails with PublicSuffixParse
C17_LongLineIsParseError ==
    (last.op = "load" /\ DataFile[last.arg].utf8
       /\ LongRuleOf[last.arg][allow_private_tlds])
        => last.ret = Err("PublicSuffixParse")

\* C17 amended: such a list never loads: it fails with PublicSuffixParse when
\* one of its first 50 lines holds a marker and with PublicSuffixFormat when
\* none does
C17_LongLineNeverLoads ==
    (last.op = "load" /\ DataFile[last.arg].utf8
       /\ LongRuleOf[last.arg][allow_private_tlds])
        => last.ret = IF NoMarkerOf[last.arg] THEN Err("PublicSuffixFormat")
                      ELSE Err("PublicSuffixParse")

\* the list with an over-long rule and enough entries around it, refused
C17_Witness ==
    /\ last.op = "load" /\ last.arg = "long_line"
    /\ LongRuleOf[last.arg][allow_private_tlds]
    /\ Cardinality(ExpectedOf[last.arg][allow_private_tlds]) >= MIN_ENTRIES
    /\ last.ret = Err("PublicSuffixParse")

C19_InitOnce ==
    [][/\ Cardinality({t \in Tasks : global'.task[t].pc = "loading"}) <= 1
       /\ \A t \in Tasks : global.task[t].pc = "loading"
            => \A u \in Tasks \ {t} :
                  global'.task[u].pc \in
                      IF global.task[u].pc = "idle" THEN {"idle", "read", "write"}
                      ELSE {global.task[u].pc}
       /\ global.manager.some
            => /\ global'.manager = global.manager
               /\ \A t \in Tasks :
                     /\ global'.task[t].pc # "loading"
                     /\ (global.task[t].pc # "idle" /\ global'.task[t].pc = "idle")
                          => global'.task[t].ret.ok
       /\ \A t \in Tasks :
             global'.task[t].got.some => global'.task[t].got = global'.manager]_vars

\* the manager is set: one task's init with other options has returned Ok
\* without replacing it, another task's get_fqdn got the stored instance, and
\* a third task's earlier load had failed
C19_Witness ==
    /\ global.manager.some
    /\ \E t, u, v \in Tasks :
          /\ global.task[t].pc = "idle" /\ global.task[t].op = "init"
          /\ global.task[t].ret.ok
          /\ global.task[t].opts = "custom"
          /\ global.manager.val = Instance(u, "default")
          /\ global.task[u].op = "get_fqdn" /\ global.task[u].got = global.manager
          /\ t # u
          /\ global.task[v].pc = "idle" /\ ~global.task[v].ret.ok

\* the attempt of the download that returned failed
LastAttemptFailed ==
    /\ last.op = "download" /\ last.met # "bad_url"
    /\ (last.met # "body" \/ FileSize[last.arg] < 32768)

C27_GateOrder ==
    last.op = "load"
        => last.ret =
             IF ~DataFile[last.arg].utf8 THEN Err("PublicSuffixParse")
             ELSE IF Len(DataFile[last.arg].lines) = 0 THEN Err("PublicSuffixParse")
             ELSE IF NoMarkerOf[last.arg] THEN Err("PublicSuffixFormat")
             ELSE IF LongRuleOf[last.arg][allow_private_tlds]
             THEN Err("PublicSuffixParse")
             ELSE IF Cardinality(ExpectedOf[last.arg][allow_private_tlds]) < MIN_ENTRIES
             THEN Err("PublicSuffixParse")
             ELSE Ok("")

\* bytes that are not UTF-8 and carry no marker, refused for their encoding
C27_Witness ==
    /\ last.op = "load" /\ last.arg = "invalid_utf8"
    /\ ~DataFile[last.arg].utf8 /\ NoMarkerOf[last.arg]
    /\ last.ret = Err("PublicSuffixParse")

\* the rule lines of a list that have five or more dots
DeepRules(data, allow_private) ==
    {ToLowercase(Trim(data.lines[i])) :
        i \in {k \in DOMAIN data.lines :
                  /\ RuleLine(data.lines, k, allow_private)
                  /\ MatchesCount(data.lines[k], ".") >= ETLD_GROUP_MAX}}

DeepRulesOf ==
    [f \in FileNames |-> [ap \in BOOLEAN |-> DeepRules(DataFile[f], ap)]]

\* C28: after any sequence of loads every entry of bucket n has exactly n
\* dots; a rule line of five or more dots is stored in no bucket, is not
\* counted, and a list that passes every other gate loads in spite of it
C28_BucketDots ==
    /\ \A n \in Buckets :
          \A k \in DOMAIN etld_list[n] : MatchesCount(etld_list[n][k], ".") = n
    /\ last.op = "load"
          => LET f == last.arg
                 ap == allow_private_tlds
             IN  /\ DataFile[f].utf8 /\ ~NoMarkerOf[f] /\ Len(DataFile[f].lines) > 0
                       => DeepRulesOf[f][ap] \cap StoredSet(etld_list) = {}
                 /\ (/\ DataFile[f].utf8 /\ ~NoMarkerOf[f] /\ ~LongRuleOf[f][ap]
                     /\ Cardinality(ExpectedOf[f][ap]) >= MIN_ENTRIES)
                       => /\ last.ret = Ok("")
                          /\ total = Cardinality(ExpectedOf[f][ap])
                 /\ last.ret = Ok("")
                       => Cardinality(ExpectedOf[f][ap]) >= MIN_ENTRIES

\* a list with a rule of five dots has loaded, the rule left out and not counted
C28_Witness ==
    /\ last.op = "load" /\ last.ret = Ok("")
    /\ DeepRulesOf[last.arg][allow_private_tlds] # {}
    /\ total = Cardinality(ExpectedOf[last.arg][allow_private_tlds])
    /\ \E n \in Buckets : n > 0 /\ etld_list[n] # <<>>

\* C29: after a successful load every stored entry is non-empty, lowercase,
\* free of surrounding whitespace, and has no leading or trailing dot
C29_NormalForm ==
    (last.op = "load" /\ last.ret = Ok(""))
        => \A e \in StoredSet(etld_list) :
              /\ e # ""
              /\ ToLowercase(e) = e
              /\ Trim(e) = e
              /\ ~StartsWith(e, ".")
              /\ ~EndsWith(e, ".")

\* C25: between completed operations the store is empty (every bucket empty,
\* total 0) or ready (every bucket in ascending order, total the sum of the
\* bucket counts), and is_initialized() is true only for a ready store that
\* holds entries
C25_EmptyOrReady ==
    /\ \/ (\A n \in Buckets : etld_list[n] = <<>>) /\ total = 0
       \/ StoreSorted /\ total = CountAll(etld_list)
    /\ is_initialized(total)
         => (StoreSorted /\ total = CountAll(etld_list) /\ CountAll(etld_list) > 0)

\* C26: a sort task leaves the members of every bucket as they were; the
\* cached total is written only when all five sort tasks have completed, and
\* at that point every bucket is in ascending order and the total is the sum
\* of count_for_dots(0) .. count_for_dots(4)
C26_TidyPostcondition ==
    [][/\ reload.pc = "sort"
            => \A n \in Buckets : /\ Range(etld_list'[n]) = Range(etld_list[n])
                                  /\ Len(etld_list'[n]) = Len(etld_list[n])
       /\ (reload.pc = "sort" /\ reload'.pc = "idle")
            => /\ reload.pending = {}
               /\ \A n \in Buckets : IsSorted(etld_list'[n])
               /\ total' = count_for_dots(etld_list', 0) + count_for_dots(etld_list', 1)
                           + count_for_dots(etld_list', 2) + count_for_dots(etld_list', 3)
                           + count_for_dots(etld_list', 4)
       /\ total' # total => (reload.pc = "sort" /\ reload.pending = {})]_vars

\* tidy has returned at the end of a reload of the full list, whose lines are
\* not in order: the first bucket starts with a and ends with x9
C26_Witness ==
    /\ last.op = "reload" /\ last.arg = "full" /\ last.ret.ok
    /\ reload.pc = "idle"
    /\ etld_list[0][1] = "a" /\ etld_list[0][Len(etld_list[0])] = "x9"
    /\ DataFile["full"].lines[5] = "uk"
    /\ total = CountAll(etld_list)

---------------------------------------------------------------------------
(* Properties of the global entry points                                   *)

\* what get_fqdn(origin) gave the validate_origin call recorded in last: the
\* loader's error when no manager could be set up, the resolver's answer on
\* the store otherwise (the store of a set manager never changes here)
OriginResult ==
    IF last.manager.some THEN get_fqdn(etld_list, last.arg) ELSE last.new_ret

C22_ReadOnly ==
    [][/\ etld_list' = etld_list
       /\ total' = total
       /\ \A r \in Readers :
             (threads[r].pc # "done" /\ threads'[r].pc = "done")
                => threads'[r].ret = get_fqdn(etld_list, threads'[r].url)
       /\ last'.op = "total" => last'.ret = CountAll(etld_list)
       /\ last'.op = "count_for_dots"
            => last'.ret = IF last'.arg \in DOMAIN etld_list
                           THEN Len(etld_list[last'.arg]) ELSE 0
       /\ last'.op = "is_initialized" => last'.ret = TRUE
       /\ last'.op = "get_statistics"
            => last'.ret = [k \in 1..5 |-> <<k - 1, Len(etld_list[k - 1])>>]]_vars

\* one reader has returned with the two-label suffix it found while another
\* is inside its loop, past a bucket it searched without a hit
C22_Witness ==
    /\ threads[1].pc = "done" /\ threads[1].url = "x.a.co.uk"
    /\ threads[1].ret = Ok("a.co.uk")
    /\ threads[2].pc = "find_tld" /\ threads[2].url = "https://www.x.yz:8080/path"
    /\ threads[2].i = 1

---------------------------------------------------------------------------
(* Properties of the threads on one bucket                                 *)

\* C23: whatever the interleaving of the threads' adds, no string is stored
\* twice, every string whose add has returned is stored, the adds of one
\* string returned true at most once, and exactly once for a string the
\* bucket did not hold before; with no add in progress count() is the number
\* of distinct strings
C23_ConcurrentAdds ==
    /\ NoDuplicates(list)
    /\ hist.added \subseteq Range(list)
    /\ \A s \in ThreadStrings :
          hist.wins[s] = IF s \in hist.added \ hist.at_sort THEN 1 ELSE 0
    /\ (\A w \in Threads : threads.t[w].pc # "locked")
         => Len(list) = Cardinality(hist.at_sort \cup hist.added)

\* two threads are adding the same new string, one inside add and one
\* waiting for the lock, after an add of it has already returned true
C23_Witness ==
    /\ \E s \in ThreadStrings \ hist.at_sort :
          /\ hist.wins[s] = 1
          /\ threads.t[1].s = s /\ threads.t[2].s = s
          /\ threads.t[1].pc = "locked" /\ threads.t[2].pc = "write"
    /\ Len(list) >= 3

\* C24: while threads add to a bucket that was sorted, a search for an entry
\* that was in the bucket when it was sorted returns found
C24_SearchDuringAdds ==
    (last.op = "search" /\ last.arg \in hist.at_sort) => last.ret = <<last.arg, TRUE>>

----------------------------------------------------------------------------
(* Properties of the longest-match loop                                    *)

\* the candidate of the last i labels of the host is an entry of bucket i - 1
StoredCandidate(store, host, i) ==
    /\ guess(host, i).ok
    /\ ListContains(store[i - 1], guess(host, i).val)

\* C30 as stated: a lookup that returns a suffix found it at an index of at
\* most four labels, so that no suffix of five labels is ever the match
C30_FourLabelBound ==
    \A r \in Readers :
        (threads[r].pc = "done" /\ threads[r].ret.ok) => threads[r].i <= 4

\* C30: a lookup that returns a suffix found it at an index i of at most
\* ETLD_GROUP_MAX = 5 labels, as the candidate of the last i labels in bucket
\* i - 1, and no longer candidate of at most five labels is stored; a
\* candidate of six or more labels is never the match
C30_BucketBound ==
    \A r \in Readers :
        (threads[r].pc = "done" /\ threads[r].ret.ok)
            => /\ threads[r].i \in 1..ETLD_GROUP_MAX
               /\ StoredCandidate(etld_list, threads[r].clean_url, threads[r].i)
               /\ MatchesCount(guess(threads[r].clean_url, threads[r].i).val, ".")
                     = threads[r].i - 1
               /\ \A j \in (threads[r].i + 1)..ETLD_GROUP_MAX :
                     ~StoredCandidate(etld_list, threads[r].clean_url, j)

\* a host of seven labels has matched its suffix of five labels in bucket 4
C30_Witness ==
    \E r \in Readers :
        /\ threads[r].pc = "done" /\ threads[r].ret.ok
        /\ MatchesCount(threads[r].clean_url, ".") > ETLD_GROUP_MAX
        /\ threads[r].i = ETLD_GROUP_MAX
        /\ StoredCandidate(etld_list, threads[r].clean_url, ETLD_GROUP_MAX)

===========================================================================
